---- MODULE Spec2Model ----
(***************************************************************************)
(* State-machine model of german_bot.py: the per-chat daily notification   *)
(* jobs kept by the APScheduler instance, the two-step time picker driven  *)
(* by the ConversationHandler, and the word list used by the digest.       *)
(*                                                                         *)
(* Updates are processed one at a time by the Application and every        *)
(* scheduler call in the handlers is synchronous, so each handler is one   *)
(* atomic step.  The conversation state is kept per (chat, user); the      *)
(* 'hour' entry lives in context.user_data, which is per user.             *)
(***************************************************************************)
EXTENDS Integers, Sequences, FiniteSets, Bags, TLC

\* ------------------------------------------------------------------ bounds
NumChats == 2
\* One user, who is a member of every chat.
Chats == 1..NumChats
Users == {1}
Keys  == Chats \X Users

\* --------------------------------------------------------------- constants
CHOOSING_HOUR   == 1
CHOOSING_MINUTE == 2
END             == -1
ConvStates      == {END, CHOOSING_HOUR, CHOOSING_MINUTE}

\* ------------------------------------------------------------ message text
\* A message text is a sequence of characters.
Digits == {"0", "1", "2", "3", "4", "5", "6", "7", "8", "9"}

DigitVal(ch) ==
    CASE ch = "0" -> 0 [] ch = "1" -> 1 [] ch = "2" -> 2 [] ch = "3" -> 3
      [] ch = "4" -> 4 [] ch = "5" -> 5 [] ch = "6" -> 6 [] ch = "7" -> 7
      [] ch = "8" -> 8 [] ch = "9" -> 9

CancelText == <<"C", "a", "n", "c", "e", "l">>

\* The texts a user sends: two values that are valid as hour and as minute,
\* an out-of-range number, a negative number, letters, and the Cancel
\* button.
Texts ==
    { <<"1", "4">>, <<"9">>, <<"6", "1">>,
      <<"-", "1">>, <<"a", "b">>, CancelText }

RECURSIVE DigitsVal(_)
DigitsVal(t) ==
    IF t = <<>> THEN 0
    ELSE 10 * DigitsVal(SubSeq(t, 1, Len(t) - 1)) + DigitVal(t[Len(t)])

AllAsciiDigits(t) == Len(t) > 0 /\ \A i \in 1..Len(t) : t[i] \in Digits

\* int(text): an optional sign followed by decimal digits; anything else
\* raises ValueError.
IntParses(t) ==
    \/ AllAsciiDigits(t)
    \/ Len(t) > 1 /\ t[1] = "-" /\ AllAsciiDigits(Tail(t))

IntValue(t) ==
    IF t[1] = "-" THEN 0 - DigitsVal(Tail(t)) ELSE DigitsVal(t)

\* str.isdigit(): every character is a digit character; superscript digits
\* count as digits although int() rejects them.
IsDigit(t) == Len(t) > 0 /\ \A i \in 1..Len(t) : t[i] \in Digits \cup {"sup2"}

\* ------------------------------------------------------------- job store
\* The scheduler's jobs form a bag of records; the id notify_<chat_id> is
\* represented by the chat id.
\* A job of the scheduler: its id notify_<chat>, the chat_id its wrapper
\* send_daily_words_wrapper has captured, and the time of its trigger.
Job(c, h, m) == [id |-> c, chat_id |-> c, hour |-> h, minute |-> m]

JobsOf(js, c) == {j \in BagToSet(js) : j.id = c}

CountOf(js, c) == BagCardinality([j \in JobsOf(js, c) |-> js[j]])

RemoveJobs_AnyChat(js, c) == EmptyBag

\* for job in scheduler.get_jobs(): if job.id == id: job.remove()
RemoveJobs(js, c) == [j \in BagToSet(js) \ JobsOf(js, c) |-> js[j]]

\* scheduler.add_job(..., id=id, replace_existing=True)
add_job(js, job) == RemoveJobs(js, job.id) (+) SetToBag({job})

\* CronTrigger(hour=hour, minute=minute) raises ValueError out of range.
CronTriggerOK(h, m) == h \in 0..23 /\ m \in 0..59

schedule_daily_notification_KeepsOld(js, c, h, m, fault) ==
    IF fault \/ ~CronTriggerOK(h, m)
    THEN [jobs |-> RemoveJobs(js, c), ok |-> FALSE]
    ELSE IF JobsOf(js, c) # {} THEN [jobs |-> js, ok |-> TRUE]
    ELSE [jobs |-> js (+) SetToBag({Job(c, h, m)}), ok |-> TRUE]

schedule_daily_notification_NoReplace(js, c, h, m, fault) ==
    IF fault \/ ~CronTriggerOK(h, m)
    THEN [jobs |-> js, ok |-> FALSE]
    ELSE [jobs |-> js (+) SetToBag({Job(c, h, m)}), ok |-> TRUE]

\* Result of schedule_daily_notification: the job store afterwards and the
\* boolean returned.  fault: add_job raises (internal scheduler fault).
schedule_daily_notification(js, c, h, m, fault) ==
    LET removed == RemoveJobs(js, c)
    IN  IF fault \/ ~CronTriggerOK(h, m)
        THEN [jobs |-> removed, ok |-> FALSE]
        ELSE [jobs |-> add_job(removed, Job(c, h, m)), ok |-> TRUE]

\* next(job for job in scheduler.get_jobs() if job.id == id, None)
existing_job(js, c) == JobsOf(js, c)

\* ------------------------------------------------------------- word list
\* A sheet cell is a string; " " stands for a cell holding only blanks.
strip(s) == IF s = " " THEN "" ELSE s

RowWord(row) ==
    [de |-> strip(row[1]), uk |-> strip(row[2]), en |-> strip(row[3]),
     ex |-> strip(row[4]), mn |-> IF Len(row) > 4 THEN strip(row[5]) ELSE ""]

\* len(row) >= 5 and any(row), and the three essential fields are non-empty
KeepRow(row) ==
    /\ Len(row) >= 5
    /\ \E i \in 1..Len(row) : row[i] # ""
    /\ RowWord(row).de # "" /\ RowWord(row).uk # "" /\ RowWord(row).en # ""

RECURSIVE ParseRows(_)
ParseRows(rows) ==
    IF rows = <<>> THEN <<>>
    ELSE (IF KeepRow(Head(rows)) THEN <<RowWord(Head(rows))>> ELSE <<>>)
         \o ParseRows(Tail(rows))

HeaderRow == <<"de", "uk", "en", "ex", "mn">>
RowHund   == <<"Hund", "sobaka", "dog", "", "">>
RowKatze  == <<"Katze", "kit", "cat", "ex", " ">>
RowBlank  == <<"Haus", " ", "house", "", "">>
RowShort  == <<"Baum", "derevo", "tree">>

\* What one fetch of the spreadsheet yields: an exception (credentials or
\* connection), or the cell values of the first worksheet.
Sources ==
    { [kind |-> "error",  values |-> <<>>],
      [kind |-> "values", values |-> <<HeaderRow>>],
      [kind |-> "values", values |-> <<HeaderRow, RowBlank, RowShort>>],
      [kind |-> "values", values |-> <<HeaderRow, RowHund, RowBlank, RowKatze>>] }

NoSource == [kind |-> "error", values |-> <<>>]

\* Result of load_words_from_sheets: the word list afterwards and the
\* boolean returned.
load_words_from_sheets(ws, src) ==
    IF src.kind = "error" THEN [words |-> ws, ok |-> FALSE]
    ELSE IF Len(src.values) < 2 THEN [words |-> ws, ok |-> FALSE]
    ELSE [words |-> ParseRows(Tail(src.values)), ok |-> TRUE]

\* Result of send_daily_words: the word list afterwards, the messages it
\* sends (in order) and whether it raises.  f1: the first send raises;
\* f2: the send of the error notice in the except clause raises.
send_daily_words(ws, src, f1, f2) ==
    LET L     == load_words_from_sheets(ws, src)
        first == IF ~L.ok \/ L.words = <<>> THEN "no_words" ELSE "daily_words"
    IN  [words  |-> L.words,
         msgs   |-> IF f1 THEN <<first, "general_error">> ELSE <<first>>,
         raised |-> f1 /\ f2]

\* The largest sheet: MaxWords rows that all pass the filter.
MaxWords == 11

ManyRows == [i \in 1..MaxWords |-> <<ToString(i), "slovo", "word", "", "">>]

\* Further outcomes of a fetch: a long sheet, and a sheet on which the
\* processing of the rows raises after the rows given were processed.
LoadSources ==
    Sources \cup
    { [kind |-> "values", values |-> <<HeaderRow>> \o ManyRows],
      [kind |-> "row_error", values |-> <<HeaderRow, RowHund>>] }

\* One run of the body of load_words_from_sheets on the outcome src of its
\* fetch: the word list afterwards, the boolean returned, and whether an
\* exception leaves the body (both except clauses return False).
load_body(ws, src) ==
    IF src.kind = "row_error" /\ Len(src.values) >= 2
    THEN [words |-> ParseRows(Tail(src.values)), ok |-> FALSE, raised |-> FALSE]
    ELSE [words  |-> load_words_from_sheets(ws, src).words,
          ok     |-> load_words_from_sheets(ws, src).ok,
          raised |-> FALSE]

\* stop_after_attempt(3)
RetryAttempts == 3

\* @retry: the body is called again while it raises, up to RetryAttempts
\* calls; srcs gives the outcome of the fetch of each call in turn.
RECURSIVE retry(_, _, _)
retry(ws, srcs, attempt) ==
    LET R == load_body(ws, srcs[attempt])
    IN  IF R.raised /\ attempt < RetryAttempts
        THEN retry(R.words, srcs, attempt + 1)
        ELSE [words |-> R.words, ok |-> R.ok, attempts |-> attempt]

\* min(10, len(words))
DigestSize == 10

\* random.sample(population, k): k distinct positions of the population,
\* given as the bag of the positions drawn (the order is left out).
random_sample(n, k) ==
    {SetToBag(S) : S \in {T \in SUBSET (1..n) : Cardinality(T) = k}}

daily_words_Repeats(ws) ==
    {[p \in {1} |-> IF Len(ws) < DigestSize THEN Len(ws) ELSE DigestSize]}

\* daily_words = random.sample(words, min(10, len(words)))
daily_words(ws) ==
    random_sample(Len(ws), IF Len(ws) < DigestSize THEN Len(ws) ELSE DigestSize)

\* ------------------------------------------------------------- user_data
\* context.user_data of one user: a dictionary, here a function whose
\* domain is the set of keys present.
NoData == [k \in {} |-> 0]

HasHour(d) == "hour" \in DOMAIN d

\* context.user_data['hour'] = hour
SetHour(d, h) == [k \in DOMAIN d \cup {"hour"} |-> IF k = "hour" THEN h ELSE d[k]]

DelHour(d) == [k \in DOMAIN d \ {"hour"} |-> d[k]]

HourSet(d) == IF HasHour(d) THEN {d["hour"]} ELSE {}

\* --------------------------------------------------------------- handlers
\* A handler's result: the conversation state it returns, the user's
\* user_data, the job store and word list afterwards, the calls it made to
\* schedule_daily_notification, how many times it called send_daily_words,
\* the messages it sent (in order), and whether it raised.
Result(st, d, js, ws, calls, digests, msgs, raised) ==
    [state |-> st, data |-> d, jobs |-> js, words |-> ws, calls |-> calls,
     digests |-> digests, msgs |-> msgs, raised |-> raised]

DenotesHour(t) == IntParses(t) /\ 0 <= IntValue(t) /\ IntValue(t) <= 23

set_notification_time(d, js, ws) ==
    Result(CHOOSING_HOUR, d, js, ws, <<>>, 0, <<"hour_prompt">>, FALSE)

hour_chosen_KeepsPending(d, js, ws, text) ==
    IF text = CancelText
    THEN Result(END, d, js, ws, <<>>, 0, <<"cancelled", "continue">>, FALSE)
    ELSE IF ~DenotesHour(text)
    THEN Result(CHOOSING_HOUR, d, js, ws, <<>>, 0, <<"hour_reprompt">>, FALSE)
    ELSE Result(CHOOSING_MINUTE,
                IF HasHour(d) THEN d ELSE SetHour(d, IntValue(text)), js, ws,
                <<>>, 0, <<"minute_prompt">>, FALSE)

hour_chosen_NoRangeCheck(d, js, ws, text) ==
    IF text = CancelText
    THEN Result(END, d, js, ws, <<>>, 0, <<"cancelled", "continue">>, FALSE)
    ELSE IF ~IntParses(text)
    THEN Result(CHOOSING_HOUR, d, js, ws, <<>>, 0, <<"hour_reprompt">>, FALSE)
    ELSE Result(CHOOSING_MINUTE, SetHour(d, IntValue(text)), js, ws, <<>>, 0,
                <<"minute_prompt">>, FALSE)

hour_chosen(d, js, ws, text) ==
    IF text = CancelText
    THEN Result(END, d, js, ws, <<>>, 0, <<"cancelled", "continue">>, FALSE)
    ELSE IF ~IntParses(text)
    THEN Result(CHOOSING_HOUR, d, js, ws, <<>>, 0, <<"hour_reprompt">>, FALSE)
    ELSE IF ~(0 <= IntValue(text) /\ IntValue(text) <= 23)
    THEN Result(CHOOSING_HOUR, d, js, ws, <<>>, 0, <<"hour_reprompt">>, FALSE)
    ELSE Result(CHOOSING_MINUTE, SetHour(d, IntValue(text)), js, ws, <<>>, 0,
                <<"minute_prompt">>, FALSE)

\* The try block of minute_chosen.  exc: an exception left the block; ret:
\* the value returned from inside the block, END when none was.
\* fault: add_job raises; f1: the reply sent in the block raises; src, d1,
\* d2: the inputs of send_daily_words.
minute_try(d, js, ws, c, text, fault, f1, src, d1, d2) ==
    LET T(exc, ret, js2, ws2, calls, digests, msgs) ==
            [exc |-> exc, ret |-> ret, jobs |-> js2, words |-> ws2,
             calls |-> calls, digests |-> digests, msgs |-> msgs]
        reprompt == T(f1, CHOOSING_MINUTE, js, ws, <<>>, 0, <<"minute_reprompt">>)
    IN  IF text = CancelText
        THEN T(f1, END, js, ws, <<>>, 0, <<"cancelled">>)
        ELSE IF ~IsDigit(text) THEN reprompt
        ELSE IF ~IntParses(text) THEN T(TRUE, END, js, ws, <<>>, 0, <<>>)
        ELSE IF ~(0 <= IntValue(text) /\ IntValue(text) <= 59) THEN reprompt
        ELSE IF ~HasHour(d) THEN T(TRUE, END, js, ws, <<>>, 0, <<>>)
        ELSE
          LET hour   == d["hour"]
              minute == IntValue(text)
              S      == schedule_daily_notification(js, c, hour, minute, fault)
              call   == [chat |-> c, hour |-> hour, minute |-> minute, ok |-> S.ok]
              D      == send_daily_words(ws, src, d1, d2)
          IN  IF ~S.ok
              THEN T(f1, END, S.jobs, ws, <<call>>, 0, <<"general_error">>)
              ELSE IF f1
              THEN T(TRUE, END, S.jobs, ws, <<call>>, 0, <<"notification_set">>)
              ELSE T(D.raised, END, S.jobs, D.words, <<call>>, 1,
                     <<"notification_set">> \o D.msgs)

\* finally: if 'hour' in context.user_data: del context.user_data['hour']
minute_finally(d) == DelHour(d)

\* The text and user_data with which minute_chosen reaches the call of
\* schedule_daily_notification.
ReachesSchedule(d, text) ==
    /\ text # CancelText
    /\ IsDigit(text) /\ IntParses(text)
    /\ 0 <= IntValue(text) /\ IntValue(text) <= 59
    /\ HasHour(d)

\* f2: the reply sent in the except clause raises.
minute_chosen(d, js, ws, c, text, fault, f1, src, d1, d2, f2) ==
    LET B == minute_try(d, js, ws, c, text, fault, f1, src, d1, d2)
    IN  Result(IF B.exc THEN END ELSE B.ret,
               minute_finally(d), B.jobs, B.words, B.calls, B.digests,
               IF B.exc THEN B.msgs \o <<"general_error">> ELSE B.msgs,
               B.exc /\ f2)

start_daily(d, js, ws, c) ==
    IF existing_job(js, c) # {}
    THEN Result(END, d, js, ws, <<>>, 0, <<"already_set">>, FALSE)
    ELSE Result(CHOOSING_HOUR, d, js, ws, <<>>, 0, <<"set_time_first">>, FALSE)

stop_daily_KeepsJob(d, js, ws, c) ==
    Result(END, d, js, ws, <<>>, 0,
           IF CountOf(js, c) > 0 THEN <<"deactivated">> ELSE <<"nothing_to_stop">>,
           FALSE)

\* stop_daily returns nothing; it is not a conversation handler, so the
\* state field of its result is unused.
stop_daily(d, js, ws, c) ==
    LET jobs_removed == CountOf(js, c)
    IN  Result(END, d, RemoveJobs(js, c), ws, <<>>, 0,
               IF jobs_removed > 0 THEN <<"deactivated">> ELSE <<"nothing_to_stop">>,
               FALSE)

cancel(d, js, ws) ==
    Result(END, d, js, ws, <<>>, 0, <<"cancelled", "continue">>, FALSE)

\* ---------------------------------------------------------------- dispatch
\* Updates: a text message that is no command, a command, a button press.
TextUpdate(t)     == [kind |-> "text", data |-> t]
CommandUpdate(n)  == [kind |-> "command", data |-> n]
CallbackUpdate(n) == [kind |-> "callback", data |-> n]

\* The handler the ConversationHandler picks for an update in a given
\* conversation state: entry points first (allow_reentry=True), then the
\* handlers of the state, then the fallbacks; "none" when it declines.
conv_handler(state, upd) ==
    IF upd \in {CommandUpdate("set_time"), CallbackUpdate("set_time")}
    THEN "set_notification_time"
    ELSE IF upd = CallbackUpdate("start_daily") THEN "start_daily"
    ELSE IF state = END THEN "none"
    ELSE IF state = CHOOSING_HOUR /\ upd.kind = "text" THEN "hour_chosen"
    ELSE IF state = CHOOSING_MINUTE /\ upd.kind = "text" THEN "minute_chosen"
    ELSE IF upd = CommandUpdate("cancel") THEN "cancel"
    ELSE IF upd = TextUpdate(CancelText) THEN "cancel"
    ELSE "none"

\* application.add_handler order: the conversation handler, then the
\* CallbackQueryHandler(button), whose stop_daily branch calls stop_daily.
handler_for(state, upd) ==
    IF conv_handler(state, upd) # "none" THEN conv_handler(state, upd)
    ELSE IF upd = CallbackUpdate("stop_daily") THEN "stop_daily"
    ELSE "none"

\* ---------------------------------------------------------------- shutdown
\* Result of shutdown(): whether the scheduler and the application are
\* still running afterwards, and the stop calls it made.  An exception in
\* either step leaves the try block, so the steps after it are skipped.
shutdown(sr, ar, fault) ==
    IF sr /\ fault = "scheduler"
    THEN [scheduler |-> sr, application |-> ar,
          stops |-> <<"scheduler.shutdown">>]
    ELSE IF ar /\ fault = "application"
    THEN [scheduler |-> FALSE, application |-> ar,
          stops |-> (IF sr THEN <<"scheduler.shutdown">> ELSE <<>>)
                    \o <<"application.stop">>]
    ELSE [scheduler |-> FALSE, application |-> FALSE,
          stops |-> (IF sr THEN <<"scheduler.shutdown">> ELSE <<>>)
                    \o (IF ar THEN <<"application.stop">> ELSE <<>>)]

run_job_DropsOnError(js, c, raised) == IF raised THEN RemoveJobs(js, c) ELSE js

\* The job store after the job of chat c has run: a cron job stays in the
\* store whatever its callable did; an exception of the callable is logged
\* by the scheduler's executor.
run_job(js, c, raised) == js

\* ------------------------------------------------------------------- state
VARIABLES
    conv,               \* ConversationHandler state per (chat, user); END: none
    user_data,          \* context.user_data per user
    jobs,               \* the scheduler's job store
    words,              \* the global word list
    polling,            \* run_polling is processing updates
    schedulerRunning,   \* scheduler.running
    appRunning,         \* the application has not been stopped
    keyboard,           \* per message: the answer buttons it shows
    loop,               \* event loop: position of the handler, fire tasks
    clock,              \* scheduler: the time, next run times, submitted runs
    trace               \* history: what the last step did

vars == <<conv, user_data, jobs, words, polling, schedulerRunning, appRunning,
          keyboard, loop, clock, trace>>

\* No message shows a quiz; no handler is being run step by step.
NoKeyboards == <<>>
LoopIdle == [pc |-> "idle"]

\* The scheduler's clock is not followed: no time, no next run time.
NoClock == [now |-> 0, next |-> <<>>, pending |-> {}]

\* The record of a step: the handler that ran, for whom, on which text,
\* what it called and sent.  after: the hour accepted by the step just
\* before, when that step was hour_chosen in the same conversation and
\* this one is minute_chosen.  prev: the jobs of the chat before a step
\* that reads or changes the job store.  stops: the stop calls made by
\* shutdown().  restart: the hour left pending by
\* the session that was open when the picker was started again; it is
\* carried to the hour_chosen and then the minute_chosen step that follow
\* directly in that conversation.
Step(op, c, u, text, R) ==
    [op |-> op, chat |-> c, user |-> u, text |-> text,
     restart |-> IF op = "set_notification_time" /\ conv[<<c, u>>] # END
                 THEN HourSet(user_data[u])
                 ELSE IF /\ trace.chat = c /\ trace.user = u
                         /\ \/ op = "hour_chosen"
                               /\ trace.op = "set_notification_time"
                            \/ op = "minute_chosen" /\ trace.op = "hour_chosen"
                 THEN trace.restart
                 ELSE {},
     after |-> IF /\ op = "minute_chosen"
                  /\ trace.op = "hour_chosen" /\ trace.chat = c /\ trace.user = u
                  /\ conv[<<c, u>>] = CHOOSING_MINUTE
               THEN {IntValue(trace.text)} ELSE {},
     prev |-> IF op \in {"minute_chosen", "stop_daily", "start_daily", "fire"}
              THEN JobsOf(jobs, c) ELSE {},
     calls |-> R.calls, digests |-> R.digests, msgs |-> R.msgs,
     raised |-> R.raised, stops |-> <<>>]

InitStep ==
    [op |-> "init", chat |-> 0, user |-> 0, text |-> <<>>,
     restart |-> {}, after |-> {},
     prev |-> {}, calls |-> <<>>, digests |-> 0, msgs |-> <<>>, raised |-> FALSE,
     stops |-> <<>>]

\* main_async: the initial load may fail, leaving the list empty; the
\* scheduler is started and no job, conversation or user data exists.
Init ==
    /\ conv = [k \in Keys |-> END]
    /\ user_data = [u \in Users |-> NoData]
    /\ jobs = EmptyBag
    /\ \E src \in Sources : words = load_words_from_sheets(<<>>, src).words
    /\ polling = TRUE
    /\ schedulerRunning = TRUE
    /\ appRunning = TRUE
    /\ keyboard = NoKeyboards
    /\ loop = LoopIdle
    /\ clock = NoClock
    /\ trace = InitStep

\* A conversation handler ran for user u in chat c.  When it raised, the
\* ConversationHandler does not update the conversation state; what the
\* handler had already changed stays changed.
Apply(op, c, u, text, R) ==
    /\ conv' = IF R.raised THEN conv ELSE [conv EXCEPT ![<<c, u>>] = R.state]
    /\ user_data' = [user_data EXCEPT ![u] = R.data]
    /\ jobs' = R.jobs
    /\ words' = R.words
    /\ trace' = Step(op, c, u, text, R)
    /\ UNCHANGED <<polling, schedulerRunning, appRunning, keyboard, loop, clock>>

SetNotificationTime(c, u) ==
    /\ polling
    /\ \E upd \in {CommandUpdate("set_time"), CallbackUpdate("set_time")} :
          /\ handler_for(conv[<<c, u>>], upd) = "set_notification_time"
          /\ \E R \in {set_notification_time(user_data[u], jobs, words)} :
                Apply("set_notification_time", c, u, <<>>, R)

StartDaily(c, u) ==
    /\ polling
    /\ handler_for(conv[<<c, u>>], CallbackUpdate("start_daily")) = "start_daily"
    /\ \E R \in {start_daily(user_data[u], jobs, words, c)} :
          Apply("start_daily", c, u, <<>>, R)

HourChosen(c, u) ==
    /\ polling
    /\ \E text \in Texts :
          /\ handler_for(conv[<<c, u>>], TextUpdate(text)) = "hour_chosen"
          /\ \E R \in {hour_chosen(user_data[u], jobs, words, text)} :
                Apply("hour_chosen", c, u, text, R)

\* The inputs of minute_chosen are enumerated only where the handler reads
\* them: the scheduler fault on the path that calls the scheduler, the
\* outcome of send_daily_words on the path that calls it, the outcome of
\* the reply in the except clause when the try block raised.
MinuteChosen(c, u) ==
    /\ polling
    /\ \E text \in Texts :
          /\ handler_for(conv[<<c, u>>], TextUpdate(text)) = "minute_chosen"
          /\ \E fault \in IF ReachesSchedule(user_data[u], text) THEN BOOLEAN ELSE {FALSE},
                f1 \in BOOLEAN :
             \E src \in IF ReachesSchedule(user_data[u], text) /\ ~fault /\ ~f1
                        THEN Sources ELSE {NoSource},
                d1 \in IF ReachesSchedule(user_data[u], text) /\ ~fault /\ ~f1
                       THEN BOOLEAN ELSE {FALSE} :
             \E d2 \in IF d1 THEN BOOLEAN ELSE {FALSE} :
             \E f2 \in IF minute_try(user_data[u], jobs, words, c, text,
                                    fault, f1, src, d1, d2).exc
                       THEN BOOLEAN ELSE {FALSE} :
             \E R \in {minute_chosen(user_data[u], jobs, words, c, text,
                                     fault, f1, src, d1, d2, f2)} :
                Apply("minute_chosen", c, u, text, R)

Cancel(c, u) ==
    /\ polling
    /\ \E upd \in {CommandUpdate("cancel"), TextUpdate(CancelText)} :
          /\ handler_for(conv[<<c, u>>], upd) = "cancel"
          /\ \E R \in {cancel(user_data[u], jobs, words)} :
                Apply("cancel", c, u, IF upd.kind = "text" THEN upd.data ELSE <<>>, R)

\* The stop_daily button is handled by button(), outside the conversation.
StopDaily(c, u) ==
    /\ polling
    /\ handler_for(conv[<<c, u>>], CallbackUpdate("stop_daily")) = "stop_daily"
    /\ \E R \in {stop_daily(user_data[u], jobs, words, c)} :
           /\ jobs' = R.jobs
           /\ trace' = Step("stop_daily", c, u, <<>>, R)
    /\ UNCHANGED <<conv, user_data, words, polling, schedulerRunning, appRunning,
                   keyboard, loop, clock>>

\* The scheduler runs the job of chat c: send_daily_words_wrapper, which
\* delivers to the chat_id it has captured.
TimerFire(c) ==
    /\ polling
    /\ schedulerRunning
    /\ \E job \in JobsOf(jobs, c), src \in Sources, d1 \in BOOLEAN :
          \E d2 \in IF d1 THEN BOOLEAN ELSE {FALSE} :
          \E D \in {send_daily_words(words, src, d1, d2)} :
              /\ words' = D.words
              /\ jobs' = run_job(jobs, job.id, D.raised)
              /\ trace' = Step("fire", job.chat_id, 1, <<>>,
                               Result(END, NoData, jobs, D.words, <<>>, 1,
                                      D.msgs, D.raised))
    /\ UNCHANGED <<conv, user_data, polling, schedulerRunning, appRunning,
                   keyboard, loop, clock>>

\* run_polling returns (or raised) and the finally clause calls shutdown().
Shutdown ==
    /\ polling
    /\ polling' = FALSE
    /\ \E fault \in {"none", "scheduler", "application"} :
          \E S \in {shutdown(schedulerRunning, appRunning, fault)} :
              /\ schedulerRunning' = S.scheduler
              /\ appRunning' = S.application
              /\ trace' = [InitStep EXCEPT !.op = "shutdown",
                                                !.raised = (fault # "none"),
                                                !.stops = S.stops]
    /\ UNCHANGED <<conv, user_data, jobs, words, keyboard, loop, clock>>

Next ==
    \/ \E c \in Chats, u \in Users : SetNotificationTime(c, u)
    \/ \E c \in Chats, u \in Users : StartDaily(c, u)
    \/ \E c \in Chats, u \in Users : HourChosen(c, u)
    \/ \E c \in Chats, u \in Users : MinuteChosen(c, u)
    \/ \E c \in Chats, u \in Users : Cancel(c, u)
    \/ \E c \in Chats, u \in Users : StopDaily(c, u)
    \/ \E c \in Chats : TimerFire(c)
    \/ Shutdown

Spec == Init /\ [][Next]_vars

TypeOK ==
    /\ conv \in [Keys -> ConvStates]
    /\ \A u \in Users : DOMAIN user_data[u] \subseteq {"hour"}
    /\ polling \in BOOLEAN /\ schedulerRunning \in BOOLEAN /\ appRunning \in BOOLEAN

\* ------------------------------------------------ event loop, step by step
\* The same scheduler calls at the grain of the event loop: the handler of
\* the update being processed advances statement by statement, and the
\* scheduler's wakeup (which reads the job store and runs the due jobs)
\* gets the loop only while the handler is suspended in an await.
LoopTimes == {9, 14}

\* job.remove()
RemoveOne(js, j) == js (-) SetToBag({j})

IsAwait_AfterRemoval(pc) == pc \in {"await_reply", "await_digest", "add"}

\* The positions at which the handler is suspended in an await.
IsAwait(pc) == pc \in {"await_reply", "await_digest"}

\* The loop can run another callback.
LoopFree == loop.pc = "idle" \/ IsAwait(loop.pc)

\* The handler is between the first and the last statement that change
\* the job store: inside schedule_daily_notification or stop_daily's loop.
MidMutation == loop.pc \in {"remove", "add", "stop_remove"}

LoopStep(op, c) ==
    [op |-> op, chat |-> c, seen |-> JobsOf(jobs, c), count |-> CountOf(jobs, c),
     mid |-> MidMutation, handler |-> loop]

LoopInit ==
    /\ conv = [k \in Keys |-> END]
    /\ user_data = [u \in Users |-> NoData]
    /\ jobs = EmptyBag
    /\ words = <<>>
    /\ polling = TRUE
    /\ schedulerRunning = TRUE
    /\ appRunning = TRUE
    /\ keyboard = NoKeyboards
    /\ loop = LoopIdle
    /\ clock = NoClock
    /\ trace = [op |-> "init", chat |-> 0, seen |-> {}, count |-> 0,
                mid |-> FALSE, handler |-> LoopIdle]

LoopFixed ==
    UNCHANGED <<conv, user_data, words, polling, schedulerRunning, appRunning,
                keyboard, clock>>

\* The application takes the next update: minute_chosen with a valid
\* minute and a pending hour reaches schedule_daily_notification.
LoopMinuteChosen(c) ==
    /\ loop.pc = "idle"
    /\ \E h \in LoopTimes, m \in LoopTimes :
          loop' = [pc |-> "remove", kind |-> "register", chat |-> c,
                   hour |-> h, minute |-> m, old |-> JobsOf(jobs, c)]
    /\ trace' = LoopStep("minute_chosen", c)
    /\ UNCHANGED jobs
    /\ LoopFixed

\* for job in scheduler.get_jobs(): if job.id == ...: job.remove()
LoopRemove ==
    /\ loop.pc = "remove"
    /\ IF JobsOf(jobs, loop.chat) # {}
       THEN /\ \E j \in JobsOf(jobs, loop.chat) : jobs' = RemoveOne(jobs, j)
            /\ UNCHANGED loop
       ELSE /\ loop' = [loop EXCEPT !.pc = "add"]
            /\ UNCHANGED jobs
    /\ UNCHANGED trace
    /\ LoopFixed

\* scheduler.add_job(...), return, and the await of the reply.
LoopAdd ==
    /\ loop.pc = "add"
    /\ \E fault \in BOOLEAN :
          jobs' = IF fault \/ ~CronTriggerOK(loop.hour, loop.minute) THEN jobs
                  ELSE add_job(jobs, Job(loop.chat, loop.hour, loop.minute))
    /\ loop' = [loop EXCEPT !.pc = "await_reply"]
    /\ UNCHANGED trace
    /\ LoopFixed

\* The awaited call completes and the handler runs on: minute_chosen to
\* the await of send_daily_words and then to its end, stop_daily to its end.
LoopResume ==
    /\ IsAwait(loop.pc)
    /\ loop' = IF loop.kind = "register" /\ loop.pc = "await_reply"
               THEN [loop EXCEPT !.pc = "await_digest"]
               ELSE LoopIdle
    /\ UNCHANGED <<jobs, trace>>
    /\ LoopFixed

LoopStopDaily(c) ==
    /\ loop.pc = "idle"
    /\ loop' = [pc |-> "stop_remove", kind |-> "stop", chat |-> c,
                old |-> JobsOf(jobs, c)]
    /\ trace' = LoopStep("stop_daily", c)
    /\ UNCHANGED jobs
    /\ LoopFixed

LoopStopRemove ==
    /\ loop.pc = "stop_remove"
    /\ IF JobsOf(jobs, loop.chat) # {}
       THEN /\ \E j \in JobsOf(jobs, loop.chat) : jobs' = RemoveOne(jobs, j)
            /\ UNCHANGED loop
       ELSE /\ loop' = [loop EXCEPT !.pc = "await_reply"]
            /\ UNCHANGED jobs
    /\ UNCHANGED trace
    /\ LoopFixed

\* The scheduler's wakeup runs on the loop and finds the job of chat c.
LoopFire(c) ==
    /\ LoopFree
    /\ JobsOf(jobs, c) # {}
    /\ trace' = LoopStep("fire", c)
    /\ UNCHANGED <<jobs, loop>>
    /\ LoopFixed

LoopNext ==
    \/ \E c \in Chats : LoopMinuteChosen(c)
    \/ LoopRemove
    \/ LoopAdd
    \/ LoopResume
    \/ \E c \in Chats : LoopStopDaily(c)
    \/ LoopStopRemove
    \/ \E c \in Chats : LoopFire(c)

LoopSpec == LoopInit /\ [][LoopNext]_vars

\* ------------------------------------------------ word list, load by load
\* The loads of the word list and the digests drawn from it.
WordsInit ==
    /\ conv = [k \in Keys |-> END]
    /\ user_data = [u \in Users |-> NoData]
    /\ jobs = EmptyBag
    /\ words = <<>>
    /\ polling = TRUE
    /\ schedulerRunning = TRUE
    /\ appRunning = TRUE
    /\ keyboard = NoKeyboards
    /\ loop = LoopIdle
    /\ clock = NoClock
    /\ trace = [op |-> "init", before |-> <<>>, srcs |-> <<>>, ok |-> FALSE,
                attempts |-> 0, msgs |-> <<>>, sample |-> EmptyBag]

WordsFixed ==
    UNCHANGED <<conv, user_data, jobs, polling, schedulerRunning, appRunning,
                keyboard, loop, clock>>

\* refresh_words: one call of the decorated load_words_from_sheets.
RefreshWords ==
    \E srcs \in [1..RetryAttempts -> LoadSources] :
    \E R \in {retry(words, srcs, 1)} :
        /\ words' = R.words
        /\ trace' = [op |-> "refresh_words", before |-> words, srcs |-> srcs,
                     ok |-> R.ok, attempts |-> R.attempts,
                     msgs |-> IF R.ok THEN <<"refreshed">> ELSE <<"load_failed">>,
                     sample |-> EmptyBag]
        /\ WordsFixed

\* send_daily_words: the load, then the sample and the message when the
\* load succeeded and left words.
DeliverWords ==
    \E srcs \in [1..RetryAttempts -> LoadSources] :
    \E R \in {retry(words, srcs, 1)} :
    \E pick \in IF R.ok /\ R.words # <<>> THEN daily_words(R.words)
                 ELSE {EmptyBag} :
        /\ words' = R.words
        /\ trace' = [op |-> "send_daily_words", before |-> words, srcs |-> srcs,
                     ok |-> R.ok, attempts |-> R.attempts,
                     msgs |-> IF R.ok /\ R.words # <<>> THEN <<"daily_words">>
                              ELSE <<"no_words">>,
                     sample |-> pick]
        /\ WordsFixed

WordsNext == RefreshWords \/ DeliverWords

WordsSpec == WordsInit /\ [][WordsNext]_vars

\* -------------------------------------------------------------------- quiz
\* The menu messages a user can press buttons on.
NumMsgs == 2
Msgs == 1..NumMsgs

RowKater  == <<"Kater", "kit", "tomcat", "", "">>
RowKoeter == <<"Koeter", "sobaka", "mutt", "", "">>
RowHaus   == <<"Haus", "dim", "house", "", "">>
RowBaum   == <<"Baum", "derevo", "tree", "", "">>

\* The sheets the quiz is played on: no words, one word, four words with
\* four target terms, five words of which some share a target term.
QuizSources ==
    { [kind |-> "values", values |-> <<HeaderRow>>],
      [kind |-> "values", values |-> <<HeaderRow, RowHund>>],
      [kind |-> "values", values |-> <<HeaderRow, RowHund, RowKatze, RowHaus, RowBaum>>],
      [kind |-> "values",
       values |-> <<HeaderRow, RowHund, RowKatze, RowKater, RowKoeter, RowHaus>>] }

\* get_random_word: the words random.choice can return; none stands for
\* the result None.
get_random_word(ws) ==
    IF ws = <<>> THEN {[none |-> TRUE]}
    ELSE {[none |-> FALSE, word |-> ws[i]] : i \in 1..Len(ws)}

\* The entries of seq at the positions in S, in their order in seq.
PickAt(seq, S) ==
    LET F[i \in 0..Len(seq)] ==
            IF i = 0 THEN <<>>
            ELSE IF i \in S THEN Append(F[i - 1], seq[i]) ELSE F[i - 1]
    IN  F[Len(seq)]

get_wrong_answers_ExcludesPromptOnly(ws, asked) ==
    LET correct_answer == asked.uk
        available_words == SelectSeq(ws, LAMBDA w : w # asked)
        terms == [i \in 1..Len(available_words) |-> available_words[i].uk]
        num_answers == IF Len(terms) < 3 THEN Len(terms) ELSE 3
    IN  {PickAt(terms, S) :
            S \in {T \in SUBSET (1..Len(terms)) : Cardinality(T) = num_answers}}

\* get_wrong_answers(correct_answer): the lists random.sample can return.
\* Their order is left out: the caller shuffles the list.
get_wrong_answers(ws, asked) ==
    LET correct_answer == asked.uk
        available_words == SelectSeq(ws, LAMBDA w : w.uk # correct_answer)
        terms == [i \in 1..Len(available_words) |-> available_words[i].uk]
        num_answers == IF Len(terms) < 3 THEN Len(terms) ELSE 3
    IN  {PickAt(terms, S) :
            S \in {T \in SUBSET (1..Len(terms)) : Cardinality(T) = num_answers}}

\* The orders random.shuffle can give a list of n entries.
Shuffles(n) == {f \in [1..n -> 1..n] : \A i, j \in 1..n : f[i] = f[j] => i = j}

\* get_test_keyboard(correct_answer): the keyboards it can build, one
\* button per answer.  asked and cpos are history: the word asked and the
\* position the shuffle gave the correct answer.
get_test_keyboard(ws, asked) ==
    UNION {LET all_answers == wrong \o <<asked.uk>>
               n == Len(all_answers)
           IN  {[options |-> [i \in 1..n |-> all_answers[f[i]]],
                 asked   |-> <<asked>>,
                 cpos    |-> CHOOSE i \in 1..n : f[i] = n] : f \in Shuffles(n)} :
        wrong \in get_wrong_answers(ws, asked)}

\* A message that shows the main menu.
MenuKeyboard == [options |-> <<>>, asked |-> <<>>, cpos |-> 0]

HasTestWord(d) == "test_word" \in DOMAIN d

\* context.user_data['test_word'] = word
SetTestWord(d, w) ==
    [k \in DOMAIN d \cup {"test_word"} |-> IF k = "test_word" THEN w ELSE d[k]]

\* del context.user_data['test_word']
DelTestWord(d) == [k \in DOMAIN d \ {"test_word"} |-> d[k]]

QuizResult(d, kb, msgs, judged) ==
    [data |-> d, keyboard |-> kb, msgs |-> msgs, judged |-> judged]

\* button, query.data == 'random'
button_random(d, ws) ==
    {IF r.none THEN QuizResult(d, MenuKeyboard, <<"no_words">>, {})
     ELSE QuizResult(d, MenuKeyboard, <<"word_card">>, {}) :
        r \in get_random_word(ws)}

button_test_StoresBeforeCheck(d, ws) ==
    UNION {IF r.none
           THEN {QuizResult(SetTestWord(d, r), MenuKeyboard, <<"no_words">>, {})}
           ELSE {QuizResult(SetTestWord(d, r.word), kb, <<"question">>, {}) :
                    kb \in get_test_keyboard(ws, r.word)} :
        r \in get_random_word(ws)}

\* button, query.data == 'test'
button_test(d, ws) ==
    UNION {IF r.none
           THEN {QuizResult(d, MenuKeyboard, <<"no_words">>, {})}
           ELSE {QuizResult(SetTestWord(d, r.word), kb, <<"question">>, {}) :
                    kb \in get_test_keyboard(ws, r.word)} :
        r \in get_random_word(ws)}

\* button, query.data == 'answer_<i>', pressed on a message that shows the
\* keyboard kb; positions count from 1 here.
button_answer(d, kb, i) ==
    IF HasTestWord(d)
    THEN LET word == d["test_word"]
             selected_answer == kb.options[i]
             is_correct == selected_answer = word.uk
         IN  QuizResult(DelTestWord(d), MenuKeyboard, <<"result">>, {is_correct})
    ELSE QuizResult(d, MenuKeyboard, <<"start_new_test">>, {})

\* The record of a quiz step.  current: the question shown by the message
\* pressed asks the word that is pending; atcpos: the button pressed is at
\* the position the shuffle gave the correct answer.
QuizStep(op, m, R, current, atcpos) ==
    [op |-> op, msg |-> m, msgs |-> R.msgs, judged |-> R.judged,
     current |-> current, atcpos |-> atcpos]

QuizInit ==
    /\ conv = [k \in Keys |-> END]
    /\ user_data = [u \in Users |-> NoData]
    /\ jobs = EmptyBag
    /\ \E src \in QuizSources : words = load_words_from_sheets(<<>>, src).words
    /\ polling = TRUE
    /\ schedulerRunning = TRUE
    /\ appRunning = TRUE
    /\ keyboard = [m \in Msgs |-> MenuKeyboard]
    /\ loop = LoopIdle
    /\ clock = NoClock
    /\ trace = [op |-> "init", msg |-> 0, msgs |-> <<>>, judged |-> {},
                current |-> FALSE, atcpos |-> FALSE]

QuizFixed ==
    UNCHANGED <<conv, jobs, words, polling, schedulerRunning, appRunning, loop,
               clock>>

\* The buttons random and test are on the main menu.
QuizRandom(u, m) ==
    /\ keyboard[m] = MenuKeyboard
    /\ \E R \in button_random(user_data[u], words) :
          /\ user_data' = [user_data EXCEPT ![u] = R.data]
          /\ keyboard' = [keyboard EXCEPT ![m] = R.keyboard]
          /\ trace' = QuizStep("random", m, R, FALSE, FALSE)
    /\ QuizFixed

QuizTest(u, m) ==
    /\ keyboard[m] = MenuKeyboard
    /\ \E R \in button_test(user_data[u], words) :
          /\ user_data' = [user_data EXCEPT ![u] = R.data]
          /\ keyboard' = [keyboard EXCEPT ![m] = R.keyboard]
          /\ trace' = QuizStep("test", m, R, FALSE, FALSE)
    /\ QuizFixed

QuizAnswer(u, m) ==
    \E i \in 1..Len(keyboard[m].options) :
    \E R \in {button_answer(user_data[u], keyboard[m], i)} :
        /\ user_data' = [user_data EXCEPT ![u] = R.data]
        /\ keyboard' = [keyboard EXCEPT ![m] = R.keyboard]
        /\ trace' = QuizStep("answer", m, R,
                             /\ HasTestWord(user_data[u])
                             /\ keyboard[m].asked = <<user_data[u]["test_word"]>>,
                             i = keyboard[m].cpos)
        /\ QuizFixed

QuizNext ==
    \/ \E u \in Users, m \in Msgs : QuizRandom(u, m)
    \/ \E u \in Users, m \in Msgs : QuizTest(u, m)
    \/ \E u \in Users, m \in Msgs : QuizAnswer(u, m)

QuizSpec == QuizInit /\ [][QuizNext]_vars

\* ------------------------------------------------------ scheduler clock
\* Times are seconds since a midnight of the scheduler's timezone; a day
\* has 86400 of them (no change of the clock's offset is followed).
Day == 86400

\* The time stops at the end of day MaxDays.
MaxDays == 3
MaxClock == MaxDays * Day

\* add_job(..., misfire_grace_time=3600)
misfire_grace_time == 3600

\* The job defaults of AsyncIOScheduler(timezone=...), which passes none:
\* runs that are due together are rolled into one.
coalesce == TRUE

\* No previous fire time.
NoTime == -1

\* The hours and minutes registered while the clock is followed.
ClockTimes == { <<9, 0>>, <<14, 30>> }

\* By how many seconds the scheduler wakes after the earliest next run
\* time: on time, within the grace time, at its end, past it, and after
\* pauses of one and two days.
Lateness ==
    {0, 1800, misfire_grace_time, misfire_grace_time + 1,
     Day, Day + 7200, 2 * Day + 1800}

\* The first time at or after start that falls on hour:minute.
FirstAt(h, m, start) ==
    LET base == (start \div Day) * Day + h * 3600 + m * 60
    IN  IF base >= start THEN base ELSE base + Day

\* CronTrigger(hour, minute).get_next_fire_time(previous_fire_time, now):
\* the first fire time from now when there is no previous one; otherwise
\* from the earlier of now and the instant after the previous one, and
\* never the previous one again.
get_next_fire_time(h, m, previous_fire_time, now) ==
    IF previous_fire_time = NoTime
    THEN FirstAt(h, m, now)
    ELSE LET start_date == IF now < previous_fire_time + 1
                           THEN now ELSE previous_fire_time + 1
         IN  FirstAt(h, m, IF start_date = previous_fire_time
                           THEN start_date + 1 ELSE start_date)

\* job._get_run_times(now): the fire times from next_run_time up to now.
get_run_times(next_run_time, now) ==
    IF next_run_time > now THEN <<>>
    ELSE [i \in 1..((now - next_run_time) \div Day + 1) |->
             next_run_time + (i - 1) * Day]

is_missed_NoGrace(now, run_time) == FALSE

\* The executor's test of a run time: now - run_time > misfire_grace_time.
is_missed(now, run_time) == now - run_time > misfire_grace_time

\* What _process_jobs hands to the executor for a due job: the run times,
\* only the last of them when the job coalesces.  due keeps them all.
Submission(job, next_run_time, now) ==
    LET run_times == get_run_times(next_run_time, now)
    IN  [id |-> job.id, chat_id |-> job.chat_id, due |-> run_times,
         run_times |-> IF run_times # <<>> /\ coalesce
                       THEN <<run_times[Len(run_times)]>> ELSE run_times]

\* The run times of a submission that the executor runs.
RunsOf(sub, now) ==
    SelectSeq(sub.run_times, LAMBDA rt : ~is_missed(now, rt))

ClockStep(op, c, now, sub, delivered, msgs) ==
    [op |-> op, chat |-> c, now |-> now, due |-> sub.due,
     run_times |-> sub.run_times, delivered |-> delivered, msgs |-> msgs]

NoSubmission == [due |-> <<>>, run_times |-> <<>>]

ClockInit ==
    /\ conv = [k \in Keys |-> END]
    /\ user_data = [u \in Users |-> NoData]
    /\ jobs = EmptyBag
    /\ \E src \in Sources : words = load_words_from_sheets(<<>>, src).words
    /\ polling = TRUE
    /\ schedulerRunning = TRUE
    /\ appRunning = TRUE
    /\ keyboard = NoKeyboards
    /\ loop = LoopIdle
    /\ clock = [now |-> 0, next |-> [c \in Chats |-> NoTime], pending |-> {}]
    /\ trace = ClockStep("init", 0, 0, NoSubmission, 0, <<>>)

ClockFixed ==
    UNCHANGED <<conv, user_data, polling, schedulerRunning, appRunning,
                keyboard, loop>>

\* schedule_daily_notification(chat_id, hour, minute) as minute_chosen
\* calls it: the job is stored with its first run time, at or after now.
ClockRegister(c) ==
    /\ \E t \in ClockTimes :
       \E S \in {schedule_daily_notification(jobs, c, t[1], t[2], FALSE)} :
          /\ jobs' = S.jobs
          /\ clock' = [clock EXCEPT
                          !.next[c] = get_next_fire_time(t[1], t[2], NoTime, clock.now)]
          /\ trace' = ClockStep("register", c, clock.now, NoSubmission, 0, <<>>)
    /\ UNCHANGED words
    /\ ClockFixed

\* The scheduler wakes, late seconds after the earliest next run time, and
\* _process_jobs submits every due job and gives it its next run time.
ProcessJobs ==
    /\ BagToSet(jobs) # {}
    /\ clock.pending = {}
    /\ \E late \in Lateness :
       \E first \in {clock.next[j.id] : j \in BagToSet(jobs)} :
          /\ \A j \in BagToSet(jobs) : first <= clock.next[j.id]
          /\ first + late <= MaxClock
          /\ LET now == first + late
                  due_jobs == {j \in BagToSet(jobs) : clock.next[j.id] <= now}
                  sub(j) == Submission(j, clock.next[j.id], now)
              IN  /\ clock' =
                        [now |-> now,
                         next |-> [c \in Chats |->
                            IF \E j \in due_jobs : j.id = c
                            THEN LET j == CHOOSE k \in due_jobs : k.id = c
                                     rts == sub(j).run_times
                                 IN  get_next_fire_time(j.hour, j.minute,
                                                        rts[Len(rts)], now)
                            ELSE clock.next[c]],
                         pending |-> {sub(j) : j \in due_jobs}]
                  /\ trace' = ClockStep("process_jobs", 0, now, NoSubmission,
                                        0, <<>>)
    /\ UNCHANGED <<jobs, words>>
    /\ ClockFixed

\* The executor runs a submitted job: every run time that is not missed
\* calls send_daily_words_wrapper.
RunJob ==
    \E sub \in clock.pending :
       /\ clock' = [clock EXCEPT !.pending = clock.pending \ {sub}]
       /\ IF RunsOf(sub, clock.now) = <<>>
          THEN /\ trace' = ClockStep("run_job", sub.chat_id, clock.now, sub, 0, <<>>)
               /\ UNCHANGED words
          ELSE \E src \in Sources, d1 \in BOOLEAN :
               \E d2 \in IF d1 THEN BOOLEAN ELSE {FALSE} :
               \E D \in {send_daily_words(words, src, d1, d2)} :
                  /\ words' = D.words
                  /\ trace' = ClockStep("run_job", sub.chat_id, clock.now, sub,
                                        Len(RunsOf(sub, clock.now)), D.msgs)
       /\ UNCHANGED jobs
       /\ ClockFixed

ClockNext ==
    \/ \E c \in Chats : ClockRegister(c)
    \/ ProcessJobs
    \/ RunJob

ClockSpec == ClockInit /\ [][ClockNext]_vars

\* ------------------------------------------------------------------ claims
\* The text denotes an integer in lo..hi.
DenotesIn(t, lo, hi) == IntParses(t) /\ lo <= IntValue(t) /\ IntValue(t) <= hi

TraceKey == <<trace.chat, trace.user>>

\* C1: in every reachable state each chat id has at most one live
\* notification job.
C1_AtMostOneJobPerChat == \A c \in Chats : CountOf(jobs, c) <= 1

\* A registration has replaced an existing job of the chat.
C1_Witness ==
    /\ trace.op = "minute_chosen" /\ trace.prev # {}
    /\ Len(trace.calls) = 1 /\ trace.calls[1].ok
    /\ CountOf(jobs, trace.chat) = 1
    /\ \E c \in Chats : c # trace.chat /\ CountOf(jobs, c) = 1

\* C2: after a successful registration the chat has exactly one job, which
\* fires at the hour and minute of that registration, also when a job
\* registered earlier for another time existed: the latest wins.
C2_LatestRegistrationWins ==
    (trace.op = "minute_chosen" /\ trace.calls # <<>> /\ trace.calls[1].ok)
    => /\ JobsOf(jobs, trace.chat)
            = {Job(trace.chat, trace.calls[1].hour, trace.calls[1].minute)}
       /\ CountOf(jobs, trace.chat) = 1

\* A job for another time existed before the successful registration.
C2_Witness ==
    /\ trace.op = "minute_chosen" /\ trace.calls # <<>> /\ trace.calls[1].ok
    /\ trace.prev # {}
    /\ \A j \in trace.prev : j.minute # trace.calls[1].minute
    /\ CountOf(jobs, trace.chat) = 1

\* C3: stop_daily reports "nothing to stop" when the chat has no job and
\* "deactivated" when it has one; afterwards the lookup done by start_daily
\* finds no job for the chat, and a chat without a job gets one only by a
\* successful registration for that chat.
C3_CancelReportsAndRemoves ==
    [][ /\ trace'.op = "stop_daily"
           => /\ (existing_job(jobs, trace'.chat) = {}
                    => trace'.msgs = <<"nothing_to_stop">>)
              /\ (existing_job(jobs, trace'.chat) # {}
                    => trace'.msgs = <<"deactivated">>)
              /\ existing_job(jobs', trace'.chat) = {}
        /\ \A c \in Chats :
              (existing_job(jobs, c) = {} /\ existing_job(jobs', c) # {})
              => /\ trace'.op = "minute_chosen" /\ trace'.chat = c
                 /\ trace'.calls # <<>> /\ trace'.calls[1].ok
      ]_vars

\* stop_daily has removed a job, and the lookup finds none.
C3_Witness ==
    /\ trace.op = "stop_daily" /\ trace.prev # {}
    /\ trace.msgs = <<"deactivated">>
    /\ existing_job(jobs, trace.chat) = {}

\* C4: an invalid minute given right after the hour h was accepted leaves
\* the session in AwaitingMinute with the pending hour still h.
C4_InvalidMinuteKeepsHour ==
    (/\ trace.op = "minute_chosen" /\ trace.after # {}
     /\ trace.text # CancelText /\ ~DenotesIn(trace.text, 0, 59))
    => /\ conv[TraceKey] = CHOOSING_MINUTE
       /\ HourSet(user_data[trace.user]) = trace.after

\* C5: a cancel input in AwaitingHour or AwaitingMinute, handled without
\* an exception, ends the picker with no pending hour left stored for the
\* user and without a call of the registration.
C5_CancelClearsSession ==
    (/\ \/ trace.op = "cancel"
        \/ trace.op \in {"hour_chosen", "minute_chosen"} /\ trace.text = CancelText
     /\ ~trace.raised)
    => /\ conv[TraceKey] = END
       /\ ~HasHour(user_data[trace.user])
       /\ trace.calls = <<>>

\* The registration was called exactly once, for the chat, with the hour
\* accepted just before and the minute of the text.
RegisteredOnceAsEntered ==
    /\ Len(trace.calls) = 1
    /\ trace.calls[1].chat = trace.chat
    /\ {trace.calls[1].hour} = trace.after
    /\ trace.calls[1].minute = IntValue(trace.text)

EnteredHourThenMinute ==
    /\ trace.op = "minute_chosen" /\ trace.after # {}
    /\ DenotesIn(trace.text, 0, 59)

\* C6: a valid hour followed by a valid minute ends the picker and calls
\* the registration exactly once with the chat, that hour and that minute.
C6_HourThenMinuteCompletes ==
    EnteredHourThenMinute => (RegisteredOnceAsEntered /\ conv[TraceKey] = END)

\* C7: after a valid minute in AwaitingMinute the pending hour is gone and
\* the picker has terminated, whatever failed.
C7_CleanupAndTermination ==
    (trace.op = "minute_chosen" /\ DenotesIn(trace.text, 0, 59))
    => (~HasHour(user_data[trace.user]) /\ conv[TraceKey] = END)

\* C8: on completion the immediate digest is triggered exactly once if and
\* only if the registration succeeded; a failed registration is reported
\* and triggers no delivery.
C8_DigestIffRegistered ==
    (trace.op = "minute_chosen" /\ trace.calls # <<>>)
    => /\ trace.calls[1].ok <=> trace.digests = 1
       /\ ~trace.calls[1].ok
            => (trace.digests = 0
                /\ \E i \in 1..Len(trace.msgs) : trace.msgs[i] = "general_error")

\* C9: whatever fails inside the delivery at fire time, the chat's job is
\* still registered unchanged afterwards, the scheduler is still running,
\* and the job can fire again.
C9_FailedFireKeepsJob ==
    trace.op = "fire"
    => /\ JobsOf(jobs, trace.chat) = trace.prev
       /\ CountOf(jobs, trace.chat) = Cardinality(trace.prev)
       /\ JobsOf(jobs, trace.chat) # {}
       /\ schedulerRunning /\ polling

\* A fire in which the delivery raised: the digest could not be sent and
\* neither could the error notice.
C9_Witness ==
    /\ trace.op = "fire" /\ trace.raised
    /\ JobsOf(jobs, trace.chat) # {}

\* C10: in AwaitingHour an input that is neither cancel nor an integer in
\* 0..23 leaves the picker in AwaitingHour with no pending hour stored and
\* sends the re-prompt (stated for a user who has no picker open in
\* another chat, whose pending hour would be stored too).
C10_InvalidHourStays ==
    (/\ trace.op = "hour_chosen"
     /\ trace.text # CancelText /\ ~DenotesIn(trace.text, 0, 23)
     /\ \A c \in Chats \ {trace.chat} : conv[<<c, trace.user>>] = END)
    => /\ conv[TraceKey] = CHOOSING_HOUR
       /\ ~HasHour(user_data[trace.user])
       /\ trace.msgs = <<"hour_reprompt">>

C17_ShutdownAttemptsBoth ==
    trace.op = "shutdown"
    => trace.stops = <<"scheduler.shutdown", "application.stop">>

\* C18: a registration that fails for a chat that had a job (here at the
\* end of a picker run: hour, then minute) leaves that job in place,
\* unchanged, and creates no other.
C18_FailedRegisterKeepsOldJob ==
    (/\ trace.op = "minute_chosen" /\ trace.after # {}
     /\ trace.calls # <<>> /\ ~trace.calls[1].ok /\ trace.prev # {})
    => /\ JobsOf(jobs, trace.chat) = trace.prev
       /\ CountOf(jobs, trace.chat) = 1
\* C19: a timer fire, and the start of the next handler, never happen
\* while a handler is inside the job-store change of the registration or
\* of stop_daily's loop; a fire finds exactly one job of its chat.
C19_NoInterleavingInMutation ==
    trace.op \in {"fire", "minute_chosen", "stop_daily"}
    => /\ ~trace.mid
       /\ trace.op = "fire" => (trace.count = 1 /\ Cardinality(trace.seen) = 1)

\* A fire ran while the handler that had just replaced the chat's job was
\* suspended in its reply, and found the new job.
C19_Witness ==
    /\ trace.op = "fire"
    /\ trace.handler.pc = "await_reply" /\ trace.handler.kind = "register"
    /\ trace.handler.chat = trace.chat /\ trace.handler.old # {}
    /\ trace.seen = {Job(trace.chat, trace.handler.hour, trace.handler.minute)}
    /\ trace.seen # trace.handler.old
\* C12: a load that reports failure leaves the word list exactly as it was
\* before the load.
C12_FailedLoadKeepsWords ==
    (trace.op \in {"refresh_words", "send_daily_words"} /\ ~trace.ok)
    => words = trace.before

\* C16: the digest drawn from a word list of size s has min(10, s)
\* entries, each a position of the list, and no position is drawn twice.
C16_DigestSample ==
    (trace.op = "send_daily_words" /\ trace.msgs = <<"daily_words">>)
    => /\ BagCardinality(trace.sample)
            = (IF Len(words) < 10 THEN Len(words) ELSE 10)
       /\ \A p \in BagToSet(trace.sample) :
             p \in 1..Len(words) /\ trace.sample[p] = 1

\* A digest of 10 was drawn from a list of more than 10 words.
C16_Witness ==
    /\ trace.op = "send_daily_words" /\ trace.msgs = <<"daily_words">>
    /\ Len(words) > 10
    /\ BagCardinality(trace.sample) = 10

\* The fetch of a load attempt yields rows that load without an error.
LoadsFine(src) == src.kind = "values" /\ Len(src.values) >= 2

\* C20: a fetch that fails on the first attempt and succeeds on the second
\* or third gives a successful load, and failure is reported only after
\* three failed attempts.
C20_RetriesThreeTimes ==
    trace.op = "refresh_words"
    => /\ (/\ trace.srcs[1].kind = "error"
           /\ LoadsFine(trace.srcs[2]) \/ LoadsFine(trace.srcs[3]))
          => trace.ok
       /\ (~trace.ok /\ trace.srcs[1].kind = "error") => trace.attempts = 3

\* The question a message shows after the test button formed one.
QuestionFormed ==
    trace.op = "test" /\ trace.msgs = <<"question">>

\* The positions of the option list that hold the term t.
PositionsOf(options, t) == {i \in 1..Len(options) : options[i] = t}

C14_OptionsDistinct ==
    QuestionFormed
    => LET options == keyboard[trace.msg].options
       IN  /\ Len(options) <= 4
           /\ \A i, j \in 1..Len(options) : options[i] = options[j] => i = j

\* C15: with no words loaded, the test button and the random button
\* answer 'no words', show no question and leave no pending question.
C15_EmptyListNoQuestion ==
    (trace.op \in {"test", "random"} /\ words = <<>>)
    => /\ trace.msgs = <<"no_words">>
       /\ keyboard[trace.msg] = MenuKeyboard
       /\ ~HasTestWord(user_data[1])

\* The test button was pressed with no words loaded.
C15_Witness ==
    /\ trace.op = "test" /\ words = <<>>
    /\ trace.msgs = <<"no_words">>

\* C22: every job in the job store has its hour in 0..23 and its minute in
\* 0..59, and every call of schedule_daily_notification made by the picker
\* passes an hour in 0..23 and a minute in 0..59.
C22_JobTimesInRange ==
    /\ \A j \in BagToSet(jobs) : j.hour \in 0..23 /\ j.minute \in 0..59
    /\ \A i \in 1..Len(trace.calls) :
          trace.calls[i].hour \in 0..23 /\ trace.calls[i].minute \in 0..59

\* A picker restarted over a pending hour has registered a job.
C22_Witness ==
    /\ trace.op = "minute_chosen"
    /\ trace.restart # {}
    /\ trace.calls # <<>> /\ trace.calls[1].ok
    /\ JobsOf(jobs, trace.chat) # {}

\* C23: a registration or a cancellation for one chat leaves the jobs of
\* every other chat as they were, in number and in time; a fire leaves
\* every job as it was and delivers to the chat whose job fired.
C23_OtherChatsUntouched ==
    [][ /\ \A b \in Chats \ {trace'.chat} :
              /\ JobsOf(jobs', b) = JobsOf(jobs, b)
              /\ CountOf(jobs', b) = CountOf(jobs, b)
        /\ trace'.op = "fire"
              => /\ jobs' = jobs
                 /\ \E j \in BagToSet(jobs) :
                       j.id = trace'.chat /\ j.chat_id = trace'.chat
                 /\ \A j \in BagToSet(jobs) : j.chat_id = j.id
      ]_vars

\* One chat has replaced its job while another chat keeps a job.
C23_Witness ==
    /\ trace.op = "minute_chosen"
    /\ trace.calls # <<>> /\ trace.calls[1].ok
    /\ trace.prev # {}
    /\ \E b \in Chats \ {trace.chat} : JobsOf(jobs, b) # {}

\* C21: a job run whose latest due fire was detected at most 3600 seconds
\* late calls the delivery once; one detected later calls it not at all;
\* whatever the number of fires that came due during a pause, one run
\* delivers at most once, and the job's next run time is its next daily
\* time after the moment of detection.
C21_GraceAndNoBurst ==
    /\ trace.op = "run_job"
       => /\ trace.due # <<>>
          /\ LET late == trace.now - trace.due[Len(trace.due)]
             IN  /\ late <= 3600 => trace.delivered = 1
                 /\ late > 3600 => trace.delivered = 0
          /\ trace.delivered <= 1
    /\ trace.op = "process_jobs"
       => \A sub \in clock.pending :
             LET next_run_time == clock.next[sub.id]
             IN  /\ next_run_time > trace.now
                 /\ next_run_time <= trace.now + 86400
                 /\ (next_run_time - sub.due[1]) % 86400 = 0

\* After a pause in which three fires of a job came due, the job ran and
\* delivered once.
C21_Witness ==
    /\ trace.op = "run_job"
    /\ Len(trace.due) >= 3
    /\ trace.delivered = 1

====
